---- MODULE Spec2Model ----
(***************************************************************************)
(* Batch orchestration of the intensity_normalization command line tools:  *)
(* fcm_normalize (WM-mask derivation, then normalization), preprocess and  *)
(* coregister.  The file system is a set of directories and a map from     *)
(* file paths to contents; file names are sequences of characters so that  *)
(* listings are really sorted and base names are really split.             *)
(***************************************************************************)
EXTENDS Naturals, Sequences, FiniteSets, TLC

VARIABLES env, template_fns, prog, args, dirs, files, pc, ppc, idx, img_fns, mask_fns, wm_masks,
          wm_mask_dir, call, loc, status, log, calls, snap, failed, preflight

vars == <<env, template_fns, prog, args, dirs, files, pc, ppc, idx, img_fns, mask_fns, wm_masks,
          wm_mask_dir, call, loc, status, log, calls, snap, failed, preflight>>

-----------------------------------------------------------------------------
(* Bounds *)

\* largest number of image files in the image directory
MaxCohort == 2

-----------------------------------------------------------------------------
(* Characters, strings and file names *)

\* the characters used in file names, in code-point order
Alphabet == <<"-", ".", "0", "1", "2", "3", "4", "5", "_", "a", "b", "c", "e", "f", "g",
              "h", "i", "k", "m", "n", "p", "r", "s", "t", "w", "z">>

Ord(c) == CHOOSE i \in 1..Len(Alphabet) : Alphabet[i] = c

Min(a, b) == IF a < b THEN a ELSE b

\* s < t as Python compares str: first differing code point, a prefix sorts first
StrLess(s, t) ==
    \E k \in 1..(Min(Len(s), Len(t)) + 1) :
        /\ \A j \in 1..(k - 1) : s[j] = t[j]
        /\ \/ k > Len(s) /\ k <= Len(t)
           \/ k <= Len(s) /\ k <= Len(t) /\ Ord(s[k]) < Ord(t[k])

NII == <<".", "n", "i", "i">>
GZ == <<".", "g", "z">>
NIIGZ == NII \o GZ
WMMASK == <<"_", "w", "m", "m", "a", "s", "k">>
FCM == <<"_", "f", "c", "m">>
REG == <<"_", "r", "e", "g">>
HISTPNG == <<"h", "i", "s", "t", ".", "p", "n", "g">>

\* a path is <<directory, file name>>; a directory is a sequence of components,
\* and the path of a directory itself has the empty file name
\* None stands for Python's None where a path is expected
None == << <<>>, <<>> >>
DirPath(d) == <<d, <<>> >>
join(d, name) == <<d, name>>
IsDirPath(p) == p[2] = <<>>

\* os.path.splitext: split at the last dot that is not the first character
LastDot(s) ==
    LET D == {i \in 2..Len(s) : s[i] = "."}
    IN IF D = {} THEN Len(s) + 1 ELSE CHOOSE i \in D : \A j \in D : j <= i

splitext(s) == <<SubSeq(s, 1, LastDot(s) - 1), SubSeq(s, LastDot(s), Len(s))>>

\* utilities.io.split_filename: (directory, base, extension), ".gz" joined to
\* the extension in front of it
split_filename(p) ==
    LET one == splitext(p[2])
        two == splitext(one[1])
    IN IF one[2] = GZ THEN <<p[1], two[1], two[2] \o one[2]>>
       ELSE <<p[1], one[1], one[2]>>

\* the pattern *.nii* of utilities.io.glob_nii
IsNii(name) == \E i \in 1..Len(name) : i + 3 <= Len(name) /\ SubSeq(name, i, i + 3) = NII

RECURSIVE SortNames(_)
SortNames(S) ==
    IF S = {} THEN <<>>
    ELSE LET m == CHOOSE x \in S : \A y \in S : x = y \/ StrLess(x, y)
         IN <<m>> \o SortNames(S \ {m})

NamesIn(fs, d) == {p[2] : p \in {q \in DOMAIN fs : q[1] = d}}

\* utilities.io.glob_nii: the sorted listing of the NIfTI files of a directory
glob_nii_of(fs, d) ==
    LET L == SortNames({n \in NamesIn(fs, d) : IsNii(n)})
    IN [i \in 1..Len(L) |-> join(d, L[i])]

glob_nii(d) == glob_nii_of(files, d)

-----------------------------------------------------------------------------
(* The file system *)

Parent(d) == SubSeq(d, 1, Len(d) - 1)
Cwd == <<>>

isdir_in(ds, p) == p # None /\ IsDirPath(p) /\ p[1] \in ds
isdir(p) == isdir_in(dirs, p)
isfile(p) == p \in DOMAIN files
exists(p) == isdir(p) \/ isfile(p)

\* os.mkdir succeeds only under an existing parent
CanMkdir(d) == Parent(d) = Cwd \/ Parent(d) \in dirs

\* a file can be written only into an existing directory
CanWrite(p) == p[1] \in dirs

WriteFile(fs, p, c) == [q \in DOMAIN fs \cup {p} |-> IF q = p THEN c ELSE fs[q]]

\* what a file holds: its kind, the image it comes from, and the auxiliary
\* volume (mask, template) it was computed with
Content(kind, src, via) == [kind |-> kind, src |-> src, via |-> via]
NoContent == Content("none", None, None)
InputContent(p) == Content("input", p, None)
StaleContent == Content("wm", None, None)

InDir == <<"in">>
AuxDir == <<"aux">>
OutDir == <<"out">>

Digits == <<"1", "2", "3", "4", "5">>
ImagePool == { <<"a">> \o NII, <<"a">> \o NIIGZ, <<"a", "1">> \o NII, <<"b">> \o NIIGZ }
AuxName(k) == <<"m", Digits[k]>> \o NII
StaleName == <<"a", "1">> \o WMMASK \o NIIGZ

-----------------------------------------------------------------------------
(* History of the run *)

\* one entry per call of an external primitive or file-system operation
Call(op, path, src, via) ==
    [op |-> op, phase |-> pc, item |-> idx, path |-> path, src |-> src, via |-> via]

WriteOps == {"save_wmmask", "save_fcm", "savefig", "write_img", "write_mask", "write_reg"}

WrittenPaths(cs) == {cs[i].path : i \in {j \in 1..Len(cs) : cs[j].op \in WriteOps}}

Snapshot == [fs |-> files, outs |-> WrittenPaths(calls)]

NoFail == [phase |-> "none", item |-> 0]

LogEntry(level, msg) == [level |-> level, msg |-> msg]

\* Raise with per-item isolation: the failure is logged and the loop goes on
RaiseAndContinue(msg) ==
    /\ status' = status
    /\ log' = Append(log, LogEntry("exception", msg))
    /\ pc' = pc
    /\ failed' = [phase |-> pc, item |-> idx]
    /\ ppc' = "idle"
    /\ idx' = idx + 1

\* an exception raised inside the try block of main: the handler logs it and
\* main returns 1
Raise(msg) ==
    /\ status' = "1"
    /\ log' = Append(log, LogEntry("exception", msg))
    /\ pc' = "done"
    /\ failed' = [phase |-> pc, item |-> idx]
    /\ ppc' = ppc
    /\ idx' = idx

lower(c) == IF c = "T1" THEN "t1" ELSE c

-----------------------------------------------------------------------------
(* fcm_normalize: process(image_fn, brain_mask_fn, wm_mask_fn, output_dir) *)

NoCall == [image_fn |-> None, brain_mask_fn |-> None, wm_mask_fn |-> None, output_dir |-> None]
NoLoc == [img |-> NoContent, dirname |-> Cwd, base |-> <<>>, mask |-> NoContent,
          wm_mask |-> NoContent, normalized |-> NoContent]

ProcessCall(image_fn, brain_mask_fn, wm_mask_fn, output_dir) ==
    /\ call' = [image_fn |-> image_fn, brain_mask_fn |-> brain_mask_fn,
                wm_mask_fn |-> wm_mask_fn, output_dir |-> output_dir]
    /\ loc' = NoLoc
    /\ ppc' = "open"

\* the step of process that follows the output-directory block
AfterOutDir == IF call.brain_mask_fn # None THEN "mask"
               ELSE IF call.wm_mask_fn # None THEN "openwm" ELSE "ret"

\* the step of process that follows the WM-mask block
AfterSaveWm == IF call.wm_mask_fn # None THEN "openwm" ELSE "ret"

\* the output directory is created on every call, present or not
NeedMkdirAlways(d) == TRUE

\* `if not os.path.exists(d)`: the directory is created only when absent
NeedMkdir(d) == ~exists(DirPath(d))

find_wm_mask(img, mask) == Content("wm", img.src, mask.src)
fcm_normalize(img, wm_mask) == Content("fcm", img.src, wm_mask.src)

WmMaskFile(dirname, base) == join(dirname, base \o WMMASK \o NIIGZ)
FcmFile(dirname, base) == join(dirname, base \o FCM \o NIIGZ)

\* line 60-61: open the image, split its file name
ProcOpen ==
    /\ status = "running" /\ ppc = "open"
    /\ IF isfile(call.image_fn)
       THEN /\ loc' = [loc EXCEPT !.img = files[call.image_fn],
                                  !.dirname = split_filename(call.image_fn)[1],
                                  !.base = split_filename(call.image_fn)[2]]
            /\ calls' = Append(calls, Call("open_nii", call.image_fn, call.image_fn, None))
            /\ ppc' = "outdir"
            /\ UNCHANGED <<pc, idx, status, log, failed>>
       ELSE /\ Raise("open_nii")
            /\ UNCHANGED <<loc, calls>>
    /\ UNCHANGED <<env, template_fns, prog, args, dirs, files, img_fns, mask_fns, wm_masks, wm_mask_dir,
                   call, snap, preflight>>

\* line 62-66: the output directory replaces the image's directory
ProcOutDir ==
    /\ status = "running" /\ ppc = "outdir"
    /\ IF call.output_dir = None
       THEN /\ ppc' = AfterOutDir
            /\ UNCHANGED <<loc, dirs, calls, pc, idx, status, log, failed>>
       ELSE LET d == call.output_dir[1] IN
            IF ~NeedMkdir(d)
            THEN /\ loc' = [loc EXCEPT !.dirname = d]
                 /\ calls' = Append(calls, Call("reuse_dir", call.output_dir, None, None))
                 /\ ppc' = AfterOutDir
                 /\ UNCHANGED <<dirs, pc, idx, status, log, failed>>
            ELSE IF CanMkdir(d) /\ d \notin dirs
            THEN /\ loc' = [loc EXCEPT !.dirname = d]
                 /\ dirs' = dirs \cup {d}
                 /\ calls' = Append(calls, Call("mkdir", call.output_dir, None, None))
                 /\ ppc' = AfterOutDir
                 /\ UNCHANGED <<pc, idx, status, log, failed>>
            ELSE /\ Raise("mkdir")
                 /\ calls' = Append(calls, Call(IF d \in dirs THEN "mkdir_exists" ELSE "mkdir_failed",
                                                call.output_dir, None, None))
                 /\ UNCHANGED <<loc, dirs>>
    /\ UNCHANGED <<env, template_fns, prog, args, files, img_fns, mask_fns, wm_masks, wm_mask_dir,
                   call, snap, preflight>>

\* line 68: open the brain mask
ProcOpenMask ==
    /\ status = "running" /\ ppc = "mask"
    /\ IF isfile(call.brain_mask_fn)
       THEN /\ loc' = [loc EXCEPT !.mask = files[call.brain_mask_fn]]
            /\ calls' = Append(calls, Call("open_nii", call.brain_mask_fn, call.image_fn, None))
            /\ ppc' = "find"
            /\ UNCHANGED <<pc, idx, status, log, failed>>
       ELSE /\ Raise("open_nii")
            /\ UNCHANGED <<loc, calls>>
    /\ UNCHANGED <<env, template_fns, prog, args, dirs, files, img_fns, mask_fns, wm_masks, wm_mask_dir,
                   call, snap, preflight>>

\* line 69: derive the WM mask
ProcFindWm ==
    /\ status = "running" /\ ppc = "find"
    /\ loc' = [loc EXCEPT !.wm_mask = find_wm_mask(loc.img, loc.mask)]
    /\ calls' = Append(calls, Call("find_wm_mask", call.brain_mask_fn, call.image_fn, None))
    /\ ppc' = "savewm"
    /\ UNCHANGED <<env, template_fns, prog, args, dirs, files, pc, idx, img_fns, mask_fns, wm_masks,
                   wm_mask_dir, call, status, log, snap, failed, preflight>>

\* line 70-71: save the WM mask
ProcSaveWm ==
    /\ status = "running" /\ ppc = "savewm"
    /\ LET outfile == WmMaskFile(loc.dirname, loc.base) IN
       IF CanWrite(outfile)
       THEN /\ files' = WriteFile(files, outfile, loc.wm_mask)
            /\ calls' = Append(calls, Call("save_wmmask", outfile, call.image_fn, None))
            /\ ppc' = AfterSaveWm
            /\ UNCHANGED <<pc, idx, status, log, failed>>
       ELSE /\ Raise("save_nii")
            /\ UNCHANGED <<files, calls>>
    /\ UNCHANGED <<env, template_fns, prog, args, dirs, img_fns, mask_fns, wm_masks, wm_mask_dir,
                   call, loc, snap, preflight>>

\* line 73: open the WM mask
ProcOpenWm ==
    /\ status = "running" /\ ppc = "openwm"
    /\ IF isfile(call.wm_mask_fn)
       THEN /\ loc' = [loc EXCEPT !.wm_mask = files[call.wm_mask_fn]]
            /\ calls' = Append(calls, Call("open_nii", call.wm_mask_fn, call.image_fn, None))
            /\ ppc' = "norm"
            /\ UNCHANGED <<pc, idx, status, log, failed>>
       ELSE /\ Raise("open_nii")
            /\ UNCHANGED <<loc, calls>>
    /\ UNCHANGED <<env, template_fns, prog, args, dirs, files, img_fns, mask_fns, wm_masks, wm_mask_dir,
                   call, snap, preflight>>

\* line 74: normalize the image by its WM mean
ProcNormalize ==
    /\ status = "running" /\ ppc = "norm"
    /\ loc' = [loc EXCEPT !.normalized = fcm_normalize(loc.img, loc.wm_mask)]
    /\ calls' = Append(calls, Call("fcm_normalize", call.wm_mask_fn, call.image_fn,
                                   loc.wm_mask.src))
    /\ ppc' = "savefcm"
    /\ UNCHANGED <<env, template_fns, prog, args, dirs, files, pc, idx, img_fns, mask_fns, wm_masks,
                   wm_mask_dir, call, status, log, snap, failed, preflight>>

\* line 75-77: save the normalized image
ProcSaveFcm ==
    /\ status = "running" /\ ppc = "savefcm"
    /\ LET outfile == FcmFile(loc.dirname, loc.base) IN
       IF CanWrite(outfile)
       THEN /\ files' = WriteFile(files, outfile, loc.normalized)
            /\ calls' = Append(calls, Call("save_fcm", outfile, call.image_fn, loc.wm_mask.src))
            /\ ppc' = "ret"
            /\ UNCHANGED <<pc, idx, status, log, failed>>
       ELSE /\ Raise("save_nii")
            /\ UNCHANGED <<files, calls>>
    /\ UNCHANGED <<env, template_fns, prog, args, dirs, img_fns, mask_fns, wm_masks, wm_mask_dir,
                   call, loc, snap, preflight>>

\* process returns to the loop (or to the single-image sequence) that called it
ProcReturn ==
    /\ status = "running" /\ ppc = "ret"
    /\ ppc' = "idle"
    /\ idx' = idx + 1
    /\ pc' = IF pc = "single1" THEN "single2" ELSE IF pc = "single3" THEN "plot" ELSE pc
    /\ UNCHANGED <<env, template_fns, prog, args, dirs, files, img_fns, mask_fns, wm_masks, wm_mask_dir,
                   call, loc, status, log, calls, snap, failed, preflight>>

-----------------------------------------------------------------------------
(* fcm_normalize: main *)

\* only the absence of both masks is rejected
FcmCheckArgsAllowBoth ==
    /\ prog = "fcm" /\ status = "running" /\ pc = "args"
    /\ IF args.brain_mask = None /\ args.wm_mask = None
       THEN /\ status' = "escaped"
            /\ pc' = "done"
            /\ failed' = [phase |-> pc, item |-> idx]
       ELSE /\ pc' = "mode"
            /\ UNCHANGED <<status, failed>>
    /\ UNCHANGED <<env, template_fns, prog, args, dirs, files, ppc, idx, img_fns, mask_fns, wm_masks,
                   wm_mask_dir, call, loc, log, calls, snap, preflight>>

\* no check of the two mask options at all
FcmCheckArgsNone ==
    /\ prog = "fcm" /\ status = "running" /\ pc = "args"
    /\ pc' = "mode"
    /\ UNCHANGED <<status, failed>>
    /\ UNCHANGED <<env, template_fns, prog, args, dirs, files, ppc, idx, img_fns, mask_fns, wm_masks,
                   wm_mask_dir, call, loc, log, calls, snap, preflight>>

\* line 82-83: exactly one of brain mask and WM mask; raised before the try block
FcmCheckArgs ==
    /\ prog = "fcm" /\ status = "running" /\ pc = "args"
    /\ IF (args.brain_mask = None) = (args.wm_mask = None)
       THEN /\ status' = "escaped"
            /\ pc' = "done"
            /\ failed' = [phase |-> pc, item |-> idx]
       ELSE /\ pc' = "mode"
            /\ UNCHANGED <<status, failed>>
    /\ UNCHANGED <<env, template_fns, prog, args, dirs, files, ppc, idx, img_fns, mask_fns, wm_masks,
                   wm_mask_dir, call, loc, log, calls, snap, preflight>>

ListOfNone(n) == [i \in 1..n |-> None]

\* the check of line 98 as the message of line 99 words it
CorrespondenceStrict(imgs, masks) == Len(imgs) = Len(masks) /\ Len(imgs) > 0

\* line 98: the negation of the condition that raises
Correspondence(imgs, masks) == ~(Len(imgs) # Len(masks) /\ Len(imgs) > 0)

\* line 93-102: directory mode, listings and pre-flight check
FcmDirSetup ==
    /\ prog = "fcm" /\ status = "running" /\ pc = "mode" /\ ~args.single_img
    /\ IF ~isdir(args.image) \/ (args.brain_mask # None /\ ~isdir(args.brain_mask))
       THEN /\ Raise("image and brain-mask must be directories")
            /\ UNCHANGED <<args, img_fns, mask_fns, preflight>>
       ELSE LET imgs == glob_nii(args.image[1])
                masks == IF args.brain_mask # None THEN glob_nii(args.brain_mask[1])
                         ELSE ListOfNone(Len(imgs))
            IN /\ img_fns' = imgs
               /\ mask_fns' = masks
               /\ IF Correspondence(imgs, masks)
                  THEN /\ preflight' = "ok"
                       /\ args' = [args EXCEPT !.output_dir =
                                       IF @ = None THEN DirPath(<<"fcm">>) ELSE @]
                       /\ pc' = "wmdir"
                       /\ UNCHANGED <<status, log, failed, ppc, idx>>
                  ELSE /\ preflight' = "fail"
                       /\ Raise("input images and masks must be in correspondence")
                       /\ UNCHANGED args
    /\ UNCHANGED <<env, template_fns, prog, dirs, files, wm_masks, wm_mask_dir, call, loc, calls, snap>>

\* line 102, 105: wm_masks is a sibling of the output directory
WmMaskDirOf(output_dir) == Append(Parent(output_dir[1]), "wm_masks")

\* line 104-118: the WM-mask directory is made, reused or located
FcmWmDir ==
    /\ prog = "fcm" /\ status = "running" /\ pc = "wmdir"
    /\ IF lower(args.contrast) = "t1" /\ args.wm_mask = None
       THEN LET d == WmMaskDirOf(args.output_dir) IN
            /\ wm_mask_dir' = d
            /\ IF exists(DirPath(d))
               THEN /\ log' = Append(log, LogEntry("warning", "WM Mask Directory already exists"))
                    /\ calls' = Append(calls, Call("reuse_dir", DirPath(d), None, None))
                    /\ pc' = "phaseA"
                    /\ idx' = 1
                    /\ UNCHANGED <<dirs, status, failed, ppc>>
               ELSE IF CanMkdir(d)
               THEN /\ dirs' = dirs \cup {d}
                    /\ calls' = Append(calls, Call("mkdir", DirPath(d), None, None))
                    /\ pc' = "phaseA"
                    /\ idx' = 1
                    /\ UNCHANGED <<status, log, failed, ppc>>
               ELSE /\ Raise("mkdir")
                    /\ calls' = Append(calls, Call("mkdir_failed", DirPath(d), None, None))
                    /\ UNCHANGED dirs
       ELSE IF args.wm_mask # None /\ exists(args.wm_mask)
       THEN /\ wm_mask_dir' = args.wm_mask[1]
            /\ pc' = "globwm"
            /\ UNCHANGED <<dirs, calls, status, log, failed, ppc, idx>>
       ELSE \* os.path.exists(None) is a TypeError; a missing directory raises line 117
            /\ Raise("WM mask directory must already be created")
            /\ UNCHANGED <<dirs, calls, wm_mask_dir>>
    /\ UNCHANGED <<env, template_fns, prog, args, files, img_fns, mask_fns, wm_masks, call, loc, snap, preflight>>

\* Phase A is over after its first item
PhaseADoneEarly == idx > Min(1, Min(Len(img_fns), Len(mask_fns)))

\* the loop of line 111 is exhausted: zip stops at the shorter listing
PhaseADone == idx > Min(Len(img_fns), Len(mask_fns))

\* line 111-113: Phase A, one WM mask per image
FcmPhaseACall ==
    /\ prog = "fcm" /\ status = "running" /\ pc = "phaseA" /\ ppc = "idle"
    /\ ~PhaseADone
    /\ ProcessCall(img_fns[idx], mask_fns[idx], None, DirPath(wm_mask_dir))
    /\ snap' = Snapshot
    /\ UNCHANGED <<env, template_fns, prog, args, dirs, files, pc, idx, img_fns, mask_fns, wm_masks,
                   wm_mask_dir, status, log, calls, failed, preflight>>

FcmPhaseAEnd ==
    /\ prog = "fcm" /\ status = "running" /\ pc = "phaseA" /\ ppc = "idle"
    /\ PhaseADone
    /\ pc' = "globwm"
    /\ UNCHANGED <<env, template_fns, prog, args, dirs, files, ppc, idx, img_fns, mask_fns, wm_masks,
                   wm_mask_dir, call, loc, status, log, calls, snap, failed, preflight>>

\* line 120: the WM masks are listed again from the directory
FcmGlobWm ==
    /\ prog = "fcm" /\ status = "running" /\ pc = "globwm"
    /\ wm_masks' = glob_nii(wm_mask_dir)
    /\ idx' = 1
    /\ pc' = "phaseB"
    /\ UNCHANGED <<env, template_fns, prog, args, dirs, files, ppc, img_fns, mask_fns, wm_mask_dir,
                   call, loc, status, log, calls, snap, failed, preflight>>

\* the loop of line 121 is exhausted: zip stops at the shorter listing
PhaseBDone == idx > Min(Len(img_fns), Len(wm_masks))

\* line 121-126: Phase B, every image with the WM mask at its position
FcmPhaseBCall ==
    /\ prog = "fcm" /\ status = "running" /\ pc = "phaseB" /\ ppc = "idle"
    /\ ~PhaseBDone
    /\ ProcessCall(img_fns[idx], None, wm_masks[idx], args.output_dir)
    /\ snap' = Snapshot
    /\ UNCHANGED <<env, template_fns, prog, args, dirs, files, pc, idx, img_fns, mask_fns, wm_masks,
                   wm_mask_dir, status, log, calls, failed, preflight>>

FcmPhaseBEnd ==
    /\ prog = "fcm" /\ status = "running" /\ pc = "phaseB" /\ ppc = "idle"
    /\ PhaseBDone
    /\ pc' = "plot"
    /\ UNCHANGED <<env, template_fns, prog, args, dirs, files, ppc, idx, img_fns, mask_fns, wm_masks,
                   wm_mask_dir, call, loc, status, log, calls, snap, failed, preflight>>

\* line 129-137: single-image mode, the WM mask is derived or located
FcmSingleDerive ==
    /\ prog = "fcm" /\ status = "running" /\ pc = "mode" /\ args.single_img
    /\ IF ~isfile(args.image)
       THEN /\ Raise("image must be a file")
            /\ UNCHANGED <<call, loc, snap, img_fns>>
       ELSE IF args.wm_mask = None /\ lower(args.contrast) = "t1"
       THEN /\ ProcessCall(args.image, args.brain_mask, None, args.output_dir)
            /\ img_fns' = <<args.image>>
            /\ snap' = Snapshot
            /\ pc' = "single1"
            /\ idx' = 1
            /\ UNCHANGED <<status, log, failed>>
       ELSE IF args.wm_mask # None /\ isfile(args.wm_mask)
       THEN /\ pc' = "single2"
            /\ img_fns' = <<args.image>>
            /\ snap' = Snapshot
            /\ idx' = 1
            /\ UNCHANGED <<status, log, failed, ppc, call, loc>>
       ELSE \* os.path.isfile(None) is a TypeError; a missing file raises line 137
            /\ Raise("WM mask must be provided")
            /\ UNCHANGED <<call, loc, snap, img_fns>>
    /\ UNCHANGED <<env, template_fns, prog, args, dirs, files, mask_fns, wm_masks, wm_mask_dir, calls, preflight>>

\* the WM mask is looked for next to the image whatever the output directory
FcmSingleNormalizeImageDir ==
    /\ prog = "fcm" /\ status = "running" /\ pc = "single2" /\ ppc = "idle"
    /\ LET sp == split_filename(args.image)
           dirname == IF args.output_dir # None THEN args.output_dir[1] ELSE sp[1]
           wm_mask == IF args.wm_mask = None THEN WmMaskFile(sp[1], sp[2])
                      ELSE args.wm_mask
       IN ProcessCall(args.image, args.brain_mask, wm_mask, DirPath(dirname))
    /\ pc' = "single3"
    /\ idx' = 1
    /\ UNCHANGED <<env, template_fns, prog, args, dirs, files, img_fns, mask_fns, wm_masks, wm_mask_dir,
                   status, log, calls, snap, failed, preflight>>

\* line 138-145: single-image mode, normalization
FcmSingleNormalize ==
    /\ prog = "fcm" /\ status = "running" /\ pc = "single2" /\ ppc = "idle"
    /\ LET sp == split_filename(args.image)
           dirname == IF args.output_dir # None THEN args.output_dir[1] ELSE sp[1]
           wm_mask == IF args.wm_mask = None THEN WmMaskFile(dirname, sp[2])
                      ELSE args.wm_mask
       IN ProcessCall(args.image, args.brain_mask, wm_mask, DirPath(dirname))
    /\ pc' = "single3"
    /\ idx' = 1
    /\ UNCHANGED <<env, template_fns, prog, args, dirs, files, img_fns, mask_fns, wm_masks, wm_mask_dir,
                   status, log, calls, snap, failed, preflight>>

\* line 147-154: the histogram plot of the output directory
FcmPlotHist ==
    /\ prog = "fcm" /\ status = "running" /\ pc = "plot"
    /\ IF ~args.plot_hist
       THEN /\ pc' = "ret"
            /\ UNCHANGED <<files, calls, status, log, failed, ppc, idx>>
       ELSE IF args.output_dir # None /\ isdir(args.output_dir)
       THEN /\ files' = WriteFile(files, join(args.output_dir[1], HISTPNG),
                                  Content("hist", None, None))
            /\ calls' = Append(calls, Call("savefig", join(args.output_dir[1], HISTPNG),
                                           None, None))
            /\ pc' = "ret"
            /\ UNCHANGED <<status, log, failed, ppc, idx>>
       ELSE /\ Raise("savefig")
            /\ UNCHANGED <<files, calls>>
    /\ UNCHANGED <<env, template_fns, prog, args, dirs, img_fns, mask_fns, wm_masks, wm_mask_dir,
                   call, loc, snap, preflight>>

\* fcm line 156, preprocess line 72, coregister line 93
Return0 ==
    /\ status = "running" /\ pc = "ret"
    /\ status' = "0"
    /\ pc' = "done"
    /\ UNCHANGED <<env, template_fns, prog, args, dirs, files, ppc, idx, img_fns, mask_fns, wm_masks,
                   wm_mask_dir, call, loc, log, calls, snap, failed, preflight>>

-----------------------------------------------------------------------------
(* preprocess *)

Unit == <<1, 1, 1>>
Coarse == <<2, 2, 2>>

\* a Python sequence value: a tuple or a list never compare equal
PyTuple(v) == [type |-> "tuple", v |-> v]
PyList(v) == [type |-> "list", v |-> v]
PyNe(a, b) == a.type # b.type \/ a.v # b.v

\* a volume in memory: where it was read from and what was done to it
Vol(src, spacing, orient) ==
    [src |-> src, spacing |-> spacing, orient |-> orient, n4 |-> 0, weighted |-> FALSE,
     interp |-> "none", smoothed |-> FALSE]
NoVol == Vol(None, Unit, "none")

image_read(p) == Vol(p, env.spacing, IF p[1] = args.template_dir[1] THEN env.torient ELSE env.orient)

\* line 61-62
out_img_dir == Append(args.out_dir[1], "imgs")
out_mask_dir == Append(args.out_dir[1], "masks")
PreDirs == <<args.out_dir[1], out_img_dir, out_mask_dir>>

\* exec/preprocess.py line 66-71: the N4 options are parsed, preprocess is called
PreMain ==
    /\ prog = "preprocess" /\ status = "running" /\ pc = "pre_main"
    /\ IF args.n4_opts = "invalid"
       THEN Raise("json.loads")
       ELSE /\ pc' = "pre_glob"
            /\ UNCHANGED <<status, log, failed, ppc, idx>>
    /\ UNCHANGED <<env, template_fns, prog, args, dirs, files, img_fns, mask_fns, wm_masks,
                   wm_mask_dir, call, loc, calls, snap, preflight>>

\* utilities/preprocess.py line 55-58: listings and the assertion on their lengths
PreGlob ==
    /\ prog = "preprocess" /\ status = "running" /\ pc = "pre_glob"
    /\ img_fns' = glob_nii(args.img_dir[1])
    /\ mask_fns' = glob_nii(args.mask_dir[1])
    /\ IF Len(img_fns') = Len(mask_fns')
       THEN /\ preflight' = "ok"
            /\ pc' = "pre_dirs"
            /\ idx' = 1
            /\ UNCHANGED <<status, log, failed, ppc>>
       ELSE /\ preflight' = "fail"
            /\ Raise("Number of images and masks must be equal")
    /\ UNCHANGED <<env, template_fns, prog, args, dirs, files, wm_masks,
                   wm_mask_dir, call, loc, calls, snap>>

\* line 63-71: the output root, imgs and masks, each made when absent
PreMkdir ==
    /\ prog = "preprocess" /\ status = "running" /\ pc = "pre_dirs"
    /\ LET d == PreDirs[idx] IN
       IF ~NeedMkdir(d)
       THEN /\ calls' = Append(calls, Call("reuse_dir", DirPath(d), None, None))
            /\ idx' = IF idx = Len(PreDirs) THEN 1 ELSE idx + 1
            /\ pc' = IF idx = Len(PreDirs) THEN "pre_loop" ELSE pc
            /\ UNCHANGED <<dirs, status, log, failed, ppc>>
       ELSE IF CanMkdir(d) /\ d \notin dirs
       THEN /\ dirs' = dirs \cup {d}
            /\ calls' = Append(calls, Call("mkdir", DirPath(d), None, None))
            /\ idx' = IF idx = Len(PreDirs) THEN 1 ELSE idx + 1
            /\ pc' = IF idx = Len(PreDirs) THEN "pre_loop" ELSE pc
            /\ UNCHANGED <<status, log, failed, ppc>>
       ELSE /\ Raise("mkdir")
            /\ calls' = Append(calls, Call(IF d \in dirs THEN "mkdir_exists" ELSE "mkdir_failed",
                                           DirPath(d), None, None))
            /\ UNCHANGED dirs
    /\ UNCHANGED <<env, template_fns, prog, args, files, img_fns, mask_fns, wm_masks,
                   wm_mask_dir, call, loc, snap, preflight>>

PreLoopDone == idx > Min(Len(img_fns), Len(mask_fns))

NoPreLoc == [img |-> NoVol, mask |-> NoVol, smoothed_mask |-> NoVol]

\* line 74-77: the next image and mask of the listings
PreItem ==
    /\ prog = "preprocess" /\ status = "running" /\ pc = "pre_loop" /\ ppc = "idle"
    /\ IF PreLoopDone
       THEN /\ pc' = "ret"
            /\ UNCHANGED <<ppc, call, loc, snap>>
       ELSE /\ call' = [NoCall EXCEPT !.image_fn = img_fns[idx], !.brain_mask_fn = mask_fns[idx]]
            /\ loc' = NoPreLoc
            /\ snap' = Snapshot
            /\ ppc' = "p_readimg"
            /\ pc' = pc
    /\ UNCHANGED <<env, template_fns, prog, args, dirs, files, idx, img_fns, mask_fns, wm_masks,
                   wm_mask_dir, status, log, calls, failed, preflight>>

\* line 78
PreReadImg ==
    /\ prog = "preprocess" /\ status = "running" /\ ppc = "p_readimg"
    /\ loc' = [loc EXCEPT !.img = image_read(call.image_fn)]
    /\ calls' = Append(calls, Call("image_read", call.image_fn, call.image_fn, None))
    /\ ppc' = "p_readmask"
    /\ UNCHANGED <<env, template_fns, prog, args, dirs, files, pc, idx, img_fns, mask_fns,
                   wm_masks, wm_mask_dir, call, status, log, snap, failed, preflight>>

\* line 79
PreReadMask ==
    /\ prog = "preprocess" /\ status = "running" /\ ppc = "p_readmask"
    /\ loc' = [loc EXCEPT !.mask = image_read(call.brain_mask_fn)]
    /\ calls' = Append(calls, Call("image_read", call.brain_mask_fn, call.image_fn, None))
    /\ ppc' = "p_smooth"
    /\ UNCHANGED <<env, template_fns, prog, args, dirs, files, pc, idx, img_fns, mask_fns,
                   wm_masks, wm_mask_dir, call, status, log, snap, failed, preflight>>

\* line 80
PreSmooth ==
    /\ prog = "preprocess" /\ status = "running" /\ ppc = "p_smooth"
    /\ loc' = [loc EXCEPT !.smoothed_mask = [loc.mask EXCEPT !.smoothed = TRUE]]
    /\ calls' = Append(calls, Call("smooth_image", call.brain_mask_fn, call.image_fn, None))
    /\ ppc' = "p_n4"
    /\ UNCHANGED <<env, template_fns, prog, args, dirs, files, pc, idx, img_fns, mask_fns,
                   wm_masks, wm_mask_dir, call, status, log, snap, failed, preflight>>

\* line 81: the first, unweighted bias-field correction
PreN4 ==
    /\ prog = "preprocess" /\ status = "running" /\ ppc = "p_n4"
    /\ loc' = [loc EXCEPT !.img.n4 = @ + 1]
    /\ calls' = Append(calls, Call("n4_bias_field_correction", call.image_fn, call.image_fn, None))
    /\ ppc' = "p_n4b"
    /\ UNCHANGED <<env, template_fns, prog, args, dirs, files, pc, idx, img_fns, mask_fns,
                   wm_masks, wm_mask_dir, call, status, log, snap, failed, preflight>>

\* the second correction weighted by the mask as read, not by its smoothed copy
PreN4SecondRawMask ==
    /\ prog = "preprocess" /\ status = "running" /\ ppc = "p_n4b"
    /\ IF ~args.n4_once
       THEN /\ loc' = [loc EXCEPT !.img.n4 = @ + 1, !.img.weighted = TRUE]
            /\ calls' = Append(calls, Call("n4_bias_field_correction", call.image_fn,
                                           call.image_fn, loc.mask))
       ELSE UNCHANGED <<loc, calls>>
    /\ ppc' = "p_resample"
    /\ UNCHANGED <<env, template_fns, prog, args, dirs, files, pc, idx, img_fns, mask_fns,
                   wm_masks, wm_mask_dir, call, status, log, snap, failed, preflight>>

\* line 82-83: the second correction, weighted by the smoothed mask
PreN4Second ==
    /\ prog = "preprocess" /\ status = "running" /\ ppc = "p_n4b"
    /\ IF ~args.n4_once
       THEN /\ loc' = [loc EXCEPT !.img.n4 = @ + 1, !.img.weighted = TRUE]
            /\ calls' = Append(calls, Call("n4_bias_field_correction", call.image_fn,
                                           call.image_fn, loc.smoothed_mask))
       ELSE UNCHANGED <<loc, calls>>
    /\ ppc' = "p_resample"
    /\ UNCHANGED <<env, template_fns, prog, args, dirs, files, pc, idx, img_fns, mask_fns,
                   wm_masks, wm_mask_dir, call, status, log, snap, failed, preflight>>

\* image and mask both resampled with the B-spline interpolator
PreResampleSmoothMask ==
    /\ prog = "preprocess" /\ status = "running" /\ ppc = "p_resample"
    /\ IF PyNe(args.resolution, PyTuple(loc.img.spacing))
       THEN /\ loc' = [loc EXCEPT !.img.spacing = args.resolution.v, !.img.interp = "bspline",
                                  !.mask.spacing = args.resolution.v, !.mask.interp = "bspline"]
            /\ calls' = calls \o <<Call("resample_image", call.image_fn, call.image_fn, "bspline"),
                                   Call("resample_image", call.brain_mask_fn, call.image_fn, "bspline")>>
       ELSE UNCHANGED <<loc, calls>>
    /\ ppc' = "p_reorient"
    /\ UNCHANGED <<env, template_fns, prog, args, dirs, files, pc, idx, img_fns, mask_fns,
                   wm_masks, wm_mask_dir, call, status, log, snap, failed, preflight>>

\* line 84-86: image and mask are resampled when res differs from the spacing
PreResample ==
    /\ prog = "preprocess" /\ status = "running" /\ ppc = "p_resample"
    /\ IF PyNe(args.resolution, PyTuple(loc.img.spacing))
       THEN /\ loc' = [loc EXCEPT !.img.spacing = args.resolution.v, !.img.interp = "bspline",
                                  !.mask.spacing = args.resolution.v, !.mask.interp = "nearest"]
            /\ calls' = calls \o <<Call("resample_image", call.image_fn, call.image_fn, "bspline"),
                                   Call("resample_image", call.brain_mask_fn, call.image_fn, "nearest")>>
       ELSE UNCHANGED <<loc, calls>>
    /\ ppc' = "p_reorient"
    /\ UNCHANGED <<env, template_fns, prog, args, dirs, files, pc, idx, img_fns, mask_fns,
                   wm_masks, wm_mask_dir, call, status, log, snap, failed, preflight>>

\* line 87-93: reorientation by axis code, or by axis flip on an old ANTsPy
PreReorient ==
    /\ prog = "preprocess" /\ status = "running" /\ ppc = "p_reorient"
    /\ LET how == IF env.reorient2 THEN "reorient_image2" ELSE "reorient_image"
           to == IF env.reorient2 THEN args.orientation ELSE "axis(1,0,0)"
       IN /\ loc' = [loc EXCEPT !.img.orient = to, !.mask.orient = to]
          /\ calls' = calls \o <<Call(how, call.image_fn, call.image_fn, to),
                                 Call(how, call.brain_mask_fn, call.image_fn, to)>>
    /\ ppc' = "p_writeimg"
    /\ UNCHANGED <<env, template_fns, prog, args, dirs, files, pc, idx, img_fns, mask_fns,
                   wm_masks, wm_mask_dir, call, status, log, snap, failed, preflight>>

\* line 95: the output image keeps the input's base and extension
PreOutImg(img_fn) == join(out_img_dir, split_filename(img_fn)[2] \o split_filename(img_fn)[3])
\* line 96
PreOutMask(mask_fn) == join(out_mask_dir, split_filename(mask_fn)[2] \o split_filename(mask_fn)[3])

\* line 95, 97
PreWriteImg ==
    /\ prog = "preprocess" /\ status = "running" /\ ppc = "p_writeimg"
    /\ LET out_img == PreOutImg(call.image_fn) IN
       IF CanWrite(out_img)
       THEN /\ files' = WriteFile(files, out_img, Content("pre_img", call.image_fn, loc.img))
            /\ calls' = Append(calls, Call("write_img", out_img, call.image_fn, loc.img))
            /\ ppc' = "p_writemask"
            /\ UNCHANGED <<pc, idx, status, log, failed>>
       ELSE /\ Raise("image_write")
            /\ UNCHANGED <<files, calls>>
    /\ UNCHANGED <<env, template_fns, prog, args, dirs, img_fns, mask_fns, wm_masks, wm_mask_dir,
                   call, loc, snap, preflight>>

\* line 96, 98
PreWriteMask ==
    /\ prog = "preprocess" /\ status = "running" /\ ppc = "p_writemask"
    /\ LET out_mask == PreOutMask(call.brain_mask_fn) IN
       IF CanWrite(out_mask)
       THEN /\ files' = WriteFile(files, out_mask, Content("pre_mask", call.image_fn, loc.mask))
            /\ calls' = Append(calls, Call("write_mask", out_mask, call.image_fn, loc.mask))
            /\ ppc' = "ret"
            /\ UNCHANGED <<pc, idx, status, log, failed>>
       ELSE /\ Raise("image_write")
            /\ UNCHANGED <<files, calls>>
    /\ UNCHANGED <<env, template_fns, prog, args, dirs, img_fns, mask_fns, wm_masks, wm_mask_dir,
                   call, loc, snap, preflight>>

-----------------------------------------------------------------------------
(* coregister *)

MniPath == join(<<"ants_data">>, <<"m", "n", "i">> \o NIIGZ)

NoCoLoc == [template |-> NoVol, orientation |-> "None", input_img |-> NoVol,
            tx |-> "None", mytx |-> "None", moved |-> NoVol]

\* ants.registration: the transform found, named by its kind and what seeded it
registration(fixed, moving, initial_transform, type_of_transform) ==
    [type |-> type_of_transform, fixed |-> fixed, moving |-> moving.src,
     initial |-> initial_transform]

\* line 60-63: the image listing, the output directory made when absent
CoSetup ==
    /\ prog = "coregister" /\ status = "running" /\ pc = "co_setup"
    /\ img_fns' = glob_nii(args.img_dir[1])
    /\ LET d == args.output_dir[1] IN
       IF ~NeedMkdir(d)
       THEN /\ calls' = Append(calls, Call("reuse_dir", DirPath(d), None, None))
            /\ pc' = "co_template"
            /\ UNCHANGED <<dirs, status, log, failed, ppc, idx>>
       ELSE IF CanMkdir(d) /\ d \notin dirs
       THEN /\ dirs' = dirs \cup {d}
            /\ calls' = Append(calls, Call("mkdir", DirPath(d), None, None))
            /\ pc' = "co_template"
            /\ UNCHANGED <<status, log, failed, ppc, idx>>
       ELSE /\ Raise("mkdir")
            /\ calls' = Append(calls, Call(IF d \in dirs THEN "mkdir_exists" ELSE "mkdir_failed",
                                           DirPath(d), None, None))
            /\ UNCHANGED dirs
    /\ UNCHANGED <<env, template_fns, prog, args, files, mask_fns, wm_masks,
                   wm_mask_dir, call, loc, snap, preflight>>

\* line 64-72: the MNI template is built, or the templates are listed and counted
CoTemplate ==
    /\ prog = "coregister" /\ status = "running" /\ pc = "co_template"
    /\ IF args.template_dir = None
       THEN IF env.reorient2
            THEN /\ loc' = [NoCoLoc EXCEPT
                              !.template = Vol(MniPath, Unit, args.orientation),
                              !.orientation = args.orientation]
                 /\ calls' = calls \o <<Call("image_read", MniPath, None, None),
                                        Call("reorient_image2", MniPath, None, args.orientation)>>
                 /\ pc' = "co_loop"
                 /\ idx' = 1
                 /\ UNCHANGED <<template_fns, preflight, status, log, failed, ppc>>
            ELSE /\ Raise("reorient_image2")
                 /\ UNCHANGED <<template_fns, preflight, loc, calls>>
       ELSE /\ template_fns' = glob_nii(args.template_dir[1])
            /\ IF Len(template_fns') # Len(img_fns)
               THEN /\ preflight' = "fail"
                    /\ Raise("templates must be in correspondence with the source images")
                    /\ UNCHANGED <<loc, calls>>
               ELSE /\ preflight' = "ok"
                    /\ loc' = NoCoLoc
                    /\ pc' = "co_loop"
                    /\ idx' = 1
                    /\ UNCHANGED <<calls, status, log, failed, ppc>>
    /\ UNCHANGED <<env, prog, args, dirs, files, img_fns, mask_fns, wm_masks,
                   wm_mask_dir, call, snap>>

\* line 73-75: the next image of the listing
CoItem ==
    /\ prog = "coregister" /\ status = "running" /\ pc = "co_loop" /\ ppc = "idle"
    /\ IF idx > Len(img_fns)
       THEN /\ pc' = "ret"
            /\ UNCHANGED <<ppc, call, snap>>
       ELSE /\ call' = [NoCall EXCEPT !.image_fn = img_fns[idx]]
            /\ snap' = Snapshot
            /\ ppc' = "c_template"
            /\ pc' = pc
    /\ UNCHANGED <<env, template_fns, prog, args, dirs, files, idx, img_fns, mask_fns, wm_masks,
                   wm_mask_dir, loc, status, log, calls, failed, preflight>>

\* the canonical template read and reoriented again for every subject
CoReadTemplateRebuild ==
    /\ prog = "coregister" /\ status = "running" /\ ppc = "c_template"
    /\ IF args.template_dir # None
       THEN /\ loc' = [loc EXCEPT !.template = image_read(template_fns[idx]),
                                  !.orientation = IF env.orientation_attr THEN env.torient
                                                  ELSE "None"]
            /\ calls' = Append(calls, Call("image_read", template_fns[idx], call.image_fn, None))
       ELSE /\ loc' = [loc EXCEPT !.template = Vol(MniPath, Unit, args.orientation)]
            /\ calls' = calls \o <<Call("image_read", MniPath, None, None),
                                   Call("reorient_image2", MniPath, None, args.orientation)>>
    /\ ppc' = "c_read"
    /\ UNCHANGED <<env, template_fns, prog, args, dirs, files, pc, idx, img_fns, mask_fns,
                   wm_masks, wm_mask_dir, call, status, log, snap, failed, preflight>>

\* every subject registered against the first template of the listing
CoReadTemplateFirst ==
    /\ prog = "coregister" /\ status = "running" /\ ppc = "c_template"
    /\ IF args.template_dir # None
       THEN /\ loc' = [loc EXCEPT !.template = image_read(template_fns[1]),
                                  !.orientation = IF env.orientation_attr THEN env.torient
                                                  ELSE "None"]
            /\ calls' = Append(calls, Call("image_read", template_fns[1], call.image_fn, None))
       ELSE UNCHANGED <<loc, calls>>
    /\ ppc' = "c_read"
    /\ UNCHANGED <<env, template_fns, prog, args, dirs, files, pc, idx, img_fns, mask_fns,
                   wm_masks, wm_mask_dir, call, status, log, snap, failed, preflight>>

\* line 76-78: the subject's own template and its orientation
CoReadTemplate ==
    /\ prog = "coregister" /\ status = "running" /\ ppc = "c_template"
    /\ IF args.template_dir # None
       THEN /\ loc' = [loc EXCEPT !.template = image_read(template_fns[idx]),
                                  !.orientation = IF env.orientation_attr THEN env.torient
                                                  ELSE "None"]
            /\ calls' = Append(calls, Call("image_read", template_fns[idx], call.image_fn, None))
       ELSE UNCHANGED <<loc, calls>>
    /\ ppc' = "c_read"
    /\ UNCHANGED <<env, template_fns, prog, args, dirs, files, pc, idx, img_fns, mask_fns,
                   wm_masks, wm_mask_dir, call, status, log, snap, failed, preflight>>

\* line 79
CoReadImg ==
    /\ prog = "coregister" /\ status = "running" /\ ppc = "c_read"
    /\ loc' = [loc EXCEPT !.input_img = image_read(call.image_fn)]
    /\ calls' = Append(calls, Call("image_read", call.image_fn, call.image_fn, None))
    /\ ppc' = "c_reorient"
    /\ UNCHANGED <<env, template_fns, prog, args, dirs, files, pc, idx, img_fns, mask_fns,
                   wm_masks, wm_mask_dir, call, status, log, snap, failed, preflight>>

\* line 80: the moving image takes the template's orientation
CoReorient ==
    /\ prog = "coregister" /\ status = "running" /\ ppc = "c_reorient"
    /\ IF loc.orientation = "None"
       THEN /\ ppc' = "c_rigid"
            /\ UNCHANGED <<loc, calls, pc, idx, status, log, failed>>
       ELSE IF env.reorient2
       THEN /\ loc' = [loc EXCEPT !.input_img.orient = loc.orientation]
            /\ calls' = Append(calls, Call("reorient_image2", call.image_fn, call.image_fn,
                                           loc.orientation))
            /\ ppc' = "c_rigid"
            /\ UNCHANGED <<pc, idx, status, log, failed>>
       ELSE /\ Raise("reorient_image2")
            /\ UNCHANGED <<loc, calls>>
    /\ UNCHANGED <<env, template_fns, prog, args, dirs, files, img_fns, mask_fns,
                   wm_masks, wm_mask_dir, call, snap, preflight>>

\* the rigid registration is computed but its transform is not handed on
CoRigidDropTx ==
    /\ prog = "coregister" /\ status = "running" /\ ppc = "c_rigid"
    /\ IF ~args.no_rigid
       THEN LET mytx == registration(loc.template, loc.input_img, "None", "Rigid") IN
            /\ loc' = [loc EXCEPT !.mytx = mytx, !.tx = "None"]
            /\ calls' = Append(calls, Call("registration", call.image_fn, call.image_fn, mytx))
       ELSE /\ loc' = [loc EXCEPT !.tx = "None"]
            /\ UNCHANGED calls
    /\ ppc' = "c_reg"
    /\ UNCHANGED <<env, template_fns, prog, args, dirs, files, pc, idx, img_fns, mask_fns,
                   wm_masks, wm_mask_dir, call, status, log, snap, failed, preflight>>

\* line 81-86: the rigid pre-alignment and its forward transform
CoRigid ==
    /\ prog = "coregister" /\ status = "running" /\ ppc = "c_rigid"
    /\ IF ~args.no_rigid
       THEN LET mytx == registration(loc.template, loc.input_img, "None", "Rigid") IN
            /\ loc' = [loc EXCEPT !.mytx = mytx, !.tx = "Rigid.fwdtransforms[0]"]
            /\ calls' = Append(calls, Call("registration", call.image_fn, call.image_fn, mytx))
       ELSE /\ loc' = [loc EXCEPT !.tx = "None"]
            /\ UNCHANGED calls
    /\ ppc' = "c_reg"
    /\ UNCHANGED <<env, template_fns, prog, args, dirs, files, pc, idx, img_fns, mask_fns,
                   wm_masks, wm_mask_dir, call, status, log, snap, failed, preflight>>

\* line 88: the registration of the requested kind
CoRegister ==
    /\ prog = "coregister" /\ status = "running" /\ ppc = "c_reg"
    /\ LET mytx == registration(loc.template, loc.input_img, loc.tx, args.registration) IN
       /\ loc' = [loc EXCEPT !.mytx = mytx]
       /\ calls' = Append(calls, Call("registration", call.image_fn, call.image_fn, mytx))
    /\ ppc' = "c_apply"
    /\ UNCHANGED <<env, template_fns, prog, args, dirs, files, pc, idx, img_fns, mask_fns,
                   wm_masks, wm_mask_dir, call, status, log, snap, failed, preflight>>

\* line 90: the moving image resampled on the template's grid
CoApply ==
    /\ prog = "coregister" /\ status = "running" /\ ppc = "c_apply"
    /\ loc' = [loc EXCEPT !.moved = [loc.input_img EXCEPT !.interp = "bSpline",
                                                          !.spacing = loc.template.spacing,
                                                          !.orient = loc.template.orient]]
    /\ calls' = Append(calls, Call("apply_transforms", call.image_fn, call.image_fn, loc.mytx))
    /\ ppc' = "c_write"
    /\ UNCHANGED <<env, template_fns, prog, args, dirs, files, pc, idx, img_fns, mask_fns,
                   wm_masks, wm_mask_dir, call, status, log, snap, failed, preflight>>

RegFile(dirname, base) == join(dirname, base \o REG \o NIIGZ)

\* line 91-92
CoWrite ==
    /\ prog = "coregister" /\ status = "running" /\ ppc = "c_write"
    /\ LET registered == RegFile(args.output_dir[1], split_filename(call.image_fn)[2]) IN
       IF CanWrite(registered)
       THEN /\ files' = WriteFile(files, registered, Content("reg", call.image_fn, loc.moved))
            /\ calls' = Append(calls, Call("write_reg", registered, call.image_fn, loc.moved))
            /\ ppc' = "ret"
            /\ UNCHANGED <<pc, idx, status, log, failed>>
       ELSE /\ Raise("image_write")
            /\ UNCHANGED <<files, calls>>
    /\ UNCHANGED <<env, template_fns, prog, args, dirs, img_fns, mask_fns, wm_masks, wm_mask_dir,
                   call, loc, snap, preflight>>

-----------------------------------------------------------------------------
(* Failures of the external primitives *)

\* the steps at which an external primitive (image I/O, clustering, bias
\* correction, registration, plotting, mkdir) may raise for reasons the model
\* does not see
Fallible ==
    \/ ppc \in {"open", "mask", "find", "savewm", "openwm", "norm", "savefcm"}
    \/ ppc = "outdir" /\ call.output_dir # None /\ NeedMkdir(call.output_dir[1])
    \/ pc = "plot" /\ args.plot_hist
    \/ ppc \in {"p_readimg", "p_readmask", "p_smooth", "p_n4", "p_resample", "p_reorient",
                "p_writeimg", "p_writemask"}
    \/ ppc = "p_n4b" /\ ~args.n4_once
    \/ pc = "pre_dirs" /\ NeedMkdir(PreDirs[idx])
    \/ pc = "co_setup" /\ NeedMkdir(args.output_dir[1])
    \/ pc = "co_template" /\ args.template_dir = None
    \/ ppc \in {"c_read", "c_reg", "c_apply", "c_write"}
    \/ ppc = "c_template" /\ args.template_dir # None
    \/ ppc = "c_reorient" /\ loc.orientation # "None"
    \/ ppc = "c_rigid" /\ ~args.no_rigid

PrimitiveFails ==
    /\ status = "running" /\ Fallible
    /\ Raise("primitive")
    /\ UNCHANGED <<env, template_fns, prog, args, dirs, files, img_fns, mask_fns, wm_masks,
                   wm_mask_dir, call, loc, calls, snap, preflight>>

\* the file a write step is about to write
Outfile ==
    IF ppc = "savewm" THEN WmMaskFile(loc.dirname, loc.base)
    ELSE IF ppc = "savefcm" THEN FcmFile(loc.dirname, loc.base)
    ELSE IF ppc = "p_writeimg" THEN PreOutImg(call.image_fn)
    ELSE IF ppc = "p_writemask" THEN PreOutMask(call.brain_mask_fn)
    ELSE RegFile(args.output_dir[1], split_filename(call.image_fn)[2])

\* what a file holds after a write to it was cut short
Partial(p) == IF p \in DOMAIN files THEN [files[p] EXCEPT !.kind = "partial"]
              ELSE Content("partial", call.image_fn, None)

\* io.save_nii or ants.image_write raises after it has opened its target for
\* writing (a full disk, an encoding error): the target is left truncated
WriteFails ==
    /\ status = "running"
    /\ ppc \in {"savewm", "savefcm", "p_writeimg", "p_writemask", "c_write"}
    /\ CanWrite(Outfile)
    /\ files' = WriteFile(files, Outfile, Partial(Outfile))
    /\ calls' = Append(calls, Call("write_failed", Outfile, call.image_fn, None))
    /\ Raise("write")
    /\ UNCHANGED <<env, template_fns, prog, args, dirs, img_fns, mask_fns, wm_masks,
                   wm_mask_dir, call, loc, snap, preflight>>

-----------------------------------------------------------------------------
(* Initial states: the arguments, the environment and the file system *)

Cohorts == {S \in SUBSET ImagePool : Cardinality(S) <= MaxCohort}

ImageFiles(images) == {join(InDir, n) : n \in images}
AuxFiles(n) == {join(AuxDir, AuxName(k)) : k \in 1..n}

InitFiles(images, n, stale) ==
    [p \in ImageFiles(images) \cup AuxFiles(n) \cup stale |->
        IF p \in stale THEN StaleContent ELSE InputContent(p)]

NoArgs ==
    [image |-> None, brain_mask |-> None, wm_mask |-> None, output_dir |-> None,
     contrast |-> "t1", single_img |-> FALSE, plot_hist |-> FALSE,
     img_dir |-> None, mask_dir |-> None, out_dir |-> None, resolution |-> PyTuple(Unit),
     orientation |-> "RAI", n4_opts |-> "None", n4_once |-> FALSE,
     template_dir |-> None, registration |-> "Affine", no_rigid |-> FALSE]

DefaultEnv == [spacing |-> Unit, orient |-> "LPI", torient |-> "RAI", reorient2 |-> TRUE,
               orientation_attr |-> TRUE]

InitRun ==
    /\ ppc = "idle" /\ idx = 1
    /\ img_fns = <<>> /\ mask_fns = <<>> /\ wm_masks = <<>> /\ template_fns = <<>>
    /\ wm_mask_dir = Cwd
    /\ call = NoCall /\ loc = NoLoc
    /\ status = "running" /\ log = <<>> /\ calls = <<>>
    /\ snap = [fs |-> files, outs |-> {}]
    /\ failed = NoFail /\ preflight = "none"

InitFcm ==
    /\ prog = "fcm" /\ pc = "args" /\ env = DefaultEnv
    /\ \E images \in Cohorts, auxN \in 0..(MaxCohort + 1), auxExists \in BOOLEAN,
          single \in BOOLEAN, bm \in BOOLEAN, wm \in BOOLEAN,
          contrast \in {"t1", "T1", "flair"}, outGiven \in BOOLEAN, outExists \in BOOLEAN,
          wmPrior \in {"absent", "empty", "stale"}, plot \in BOOLEAN, imageIsDir \in BOOLEAN :
        LET aux == IF single THEN join(AuxDir, AuxName(1)) ELSE DirPath(AuxDir)
            outd == IF outGiven THEN OutDir ELSE <<"fcm">>
            image == IF imageIsDir THEN DirPath(InDir)
                     ELSE join(InDir, CHOOSE n \in images : TRUE)
        IN /\ auxExists \/ auxN = 0
           /\ imageIsDir \/ Cardinality(images) = 1
           /\ single => /\ Cardinality(images) = 1 /\ auxN <= 1 /\ wmPrior = "absent"
                        /\ outGiven \/ ~outExists
           /\ (~single /\ ~imageIsDir) => auxN = 1 /\ ~outExists /\ ~plot
           /\ (bm = wm) => /\ auxN <= 1 /\ auxExists /\ Cardinality(images) <= 1
                           /\ contrast = "t1" /\ ~outExists /\ ~plot /\ imageIsDir = ~single
           /\ wmPrior # "absent" => bm /\ ~wm
           /\ args = [NoArgs EXCEPT !.image = image,
                                    !.brain_mask = IF bm THEN aux ELSE None,
                                    !.wm_mask = IF wm THEN aux ELSE None,
                                    !.output_dir = IF outGiven THEN DirPath(OutDir) ELSE None,
                                    !.contrast = contrast, !.single_img = single,
                                    !.plot_hist = plot]
           /\ dirs = {InDir} \cup (IF auxExists THEN {AuxDir} ELSE {})
                             \cup (IF outExists THEN {outd} ELSE {})
                             \cup (IF wmPrior # "absent" THEN {WmMaskDirOf(DirPath(outd))} ELSE {})
           /\ files = InitFiles(images, auxN,
                                IF wmPrior = "stale"
                                THEN {join(WmMaskDirOf(DirPath(outd)), StaleName)} ELSE {})
    /\ InitRun

InitPre ==
    /\ prog = "preprocess" /\ pc = "pre_main"
    /\ \E images \in Cohorts, auxN \in 0..(MaxCohort + 1),
          outState \in {"absent", "root", "all"}, once \in BOOLEAN,
          opts \in {"None", "valid", "invalid"},
          res \in {PyTuple(Unit), PyList(Unit), PyList(Coarse)},
          spacing \in {Unit, Coarse}, reorient2 \in BOOLEAN :
        /\ opts = "invalid" => /\ images = {} /\ auxN = 0 /\ outState = "absent" /\ ~once
                               /\ res = PyTuple(Unit) /\ spacing = Unit /\ reorient2
        /\ opts = "valid" => res = PyTuple(Unit) /\ spacing = Unit /\ reorient2
        /\ args = [NoArgs EXCEPT !.img_dir = DirPath(InDir), !.mask_dir = DirPath(AuxDir),
                                 !.out_dir = DirPath(OutDir), !.resolution = res,
                                 !.n4_opts = opts, !.n4_once = once]
        /\ env = [DefaultEnv EXCEPT !.spacing = spacing, !.reorient2 = reorient2]
        /\ dirs = {InDir, AuxDir}
                  \cup (IF outState # "absent" THEN {OutDir} ELSE {})
                  \cup (IF outState = "all"
                        THEN {Append(OutDir, "imgs"), Append(OutDir, "masks")} ELSE {})
        /\ files = InitFiles(images, auxN, {})
    /\ InitRun

InitCoreg ==
    /\ prog = "coregister" /\ pc = "co_setup"
    /\ \E images \in Cohorts, auxN \in 0..(MaxCohort + 1), tmpl \in BOOLEAN,
          outExists \in BOOLEAN, no_rigid \in BOOLEAN, reg \in {"Affine", "SyN"},
          reorient2 \in BOOLEAN, orientation_attr \in BOOLEAN, torient \in {"RAI", "LPI"} :
        /\ ~tmpl => auxN = 0 /\ torient = "RAI" /\ orientation_attr
        /\ reg = "SyN" => ~no_rigid /\ reorient2 /\ orientation_attr
        /\ args = [NoArgs EXCEPT !.img_dir = DirPath(InDir), !.output_dir = DirPath(OutDir),
                                 !.template_dir = IF tmpl THEN DirPath(AuxDir) ELSE None,
                                 !.registration = reg, !.no_rigid = no_rigid]
        /\ env = [DefaultEnv EXCEPT !.reorient2 = reorient2, !.torient = torient,
                                    !.orientation_attr = orientation_attr]
        /\ dirs = {InDir, AuxDir} \cup (IF outExists THEN {OutDir} ELSE {})
        /\ files = InitFiles(images, auxN, {})
    /\ InitRun

Init == InitFcm \/ InitPre \/ InitCoreg

Next ==
    \/ FcmCheckArgs \/ FcmDirSetup \/ FcmWmDir \/ FcmPhaseACall \/ FcmPhaseAEnd
    \/ FcmGlobWm \/ FcmPhaseBCall \/ FcmPhaseBEnd \/ FcmSingleDerive \/ FcmSingleNormalize
    \/ FcmPlotHist
    \/ ProcOpen \/ ProcOutDir \/ ProcOpenMask \/ ProcFindWm \/ ProcSaveWm \/ ProcOpenWm
    \/ ProcNormalize \/ ProcSaveFcm \/ ProcReturn
    \/ PreMain \/ PreGlob \/ PreMkdir \/ PreItem \/ PreReadImg \/ PreReadMask \/ PreSmooth
    \/ PreN4 \/ PreN4Second \/ PreResample \/ PreReorient \/ PreWriteImg \/ PreWriteMask
    \/ CoSetup \/ CoTemplate \/ CoItem \/ CoReadTemplate \/ CoReadImg \/ CoReorient
    \/ CoRigid \/ CoRegister \/ CoApply \/ CoWrite
    \/ Return0
    \/ PrimitiveFails \/ WriteFails

Spec == Init /\ [][Next]_vars

-----------------------------------------------------------------------------
(* Properties *)

CallIdx == 1..Len(calls)
DirMode == prog = "fcm" /\ ~args.single_img
Derived == args.wm_mask = None
LoopPhases == {"phaseA", "phaseB", "pre_loop", "co_loop"}
SubjectWrites == WriteOps \ {"savefig"}
Warnings == {k \in 1..Len(log) : log[k].level = "warning"}

\* C1: in fcm_normalize every WM-mask derivation step (find_wm_mask, save)
\* precedes every normalization step, and when the masks are derived no
\* normalization starts before a WM mask has been saved for every image of
\* the cohort.
C1_PhaseAPrecedesPhaseB ==
    prog = "fcm" =>
        \A i \in CallIdx : calls[i].op = "fcm_normalize" =>
            /\ \A j \in CallIdx : calls[j].op \in {"find_wm_mask", "save_wmmask"} => j < i
            /\ Derived => \A k \in 1..Len(img_fns) :
                             \E j \in 1..(i - 1) : /\ calls[j].op = "save_wmmask"
                                                   /\ calls[j].src = img_fns[k]

\* a cohort of two whose second image is being normalized after both masks were derived
C1_Witness ==
    /\ DirMode /\ Derived /\ Len(img_fns) = 2
    /\ \E i \in CallIdx : calls[i].op = "fcm_normalize" /\ calls[i].item = 2

\* C2: in directory mode every image is normalized with the WM mask that
\* belongs to it: the one derived from that image, or the supplied one at the
\* image's position.
C2_MaskBelongsToImage ==
    DirMode =>
        \A i \in CallIdx : calls[i].op = "fcm_normalize" =>
            IF Derived THEN calls[i].via = calls[i].src
            ELSE calls[i].path = glob_nii(args.wm_mask[1])[calls[i].item]

\* C3: in directory mode a run that returns 0 has written one normalized
\* image for every image of the cohort.
C3_AllNormalized ==
    (DirMode /\ status = "0") =>
        \A k \in 1..Len(img_fns) :
            \E i \in CallIdx : calls[i].op = "save_fcm" /\ calls[i].src = img_fns[k]

\* C4: the pre-flight check of fcm_normalize and preprocess passes exactly
\* when the two listings have the same length and that length is not zero.
C4_PreflightIff ==
    (prog \in {"fcm", "preprocess"} /\ preflight # "none") =>
        (preflight = "ok" <=> CorrespondenceStrict(img_fns, mask_fns))

\* C5: when the correspondence check fails, nothing has been created,
\* written, read or processed.
C5_NoIOBeforeAbort ==
    preflight = "fail" => calls = <<>>

\* C6: main ends with status 0 exactly when nothing failed, and with a
\* logged exception and status 1 for any failure; no exception escapes main.
C6_ExitStatus ==
    status # "running" =>
        /\ status \in {"0", "1"}
        /\ status = "0" <=> failed = NoFail
        /\ status = "1" => log # <<>> /\ log[Len(log)].level = "exception"

\* C7: when an item of a batch loop fails, the run ends with status 1 and
\* no later item of that loop has been processed.
C7_BatchFatal ==
    (failed # NoFail /\ failed.phase \in LoopPhases) =>
        /\ status = "1" /\ pc = "done"
        /\ \A i \in CallIdx : calls[i].phase = failed.phase => calls[i].item <= failed.item

\* the first of two items failed in Phase B, in preprocess or in coregister
C7_Witness ==
    /\ failed.phase \in {"phaseB", "pre_loop", "co_loop"} /\ failed.item = 1
    /\ Len(img_fns) = 2 /\ status = "1"
    /\ \E i \in CallIdx : calls[i].phase = failed.phase

\* C8: when an item of a batch loop fails, every output file written before
\* that item started still exists and holds what it held then.
C8_EarlierOutputsKept ==
    (failed # NoFail /\ failed.phase \in LoopPhases) =>
        \A p \in snap.outs : p \in DOMAIN files /\ files[p] = snap.fs[p]

\* C9: outputs written for two different input images never share a path.
C9_DistinctOutputs ==
    \A i, j \in CallIdx :
        (/\ calls[i].op \in SubjectWrites /\ calls[j].op \in SubjectWrites
         /\ calls[i].src # calls[j].src) => calls[i].path # calls[j].path

\* C10 as stated: every output directory found present is reused with a
\* warning and without an attempt to create it.
C10_ReuseWarns ==
    /\ \A i \in CallIdx : calls[i].op # "mkdir_exists"
    /\ \A i \in CallIdx : calls[i].op = "reuse_dir" => Warnings # {}

\* C10 amended: a directory found present is reused without an attempt to
\* create it, and a warning is logged for the wm_masks directory only.
C10_ReuseWithoutMkdir ==
    /\ \A i \in CallIdx : calls[i].op # "mkdir_exists"
    /\ Cardinality(Warnings) =
         Cardinality({i \in CallIdx : calls[i].op = "reuse_dir" /\ calls[i].phase = "wmdir"})

\* a run that reused its output directory silently and returned 0
C10_Witness ==
    /\ status = "0" /\ Warnings = {}
    /\ \E i \in CallIdx : calls[i].op = "reuse_dir"
    /\ \E i \in CallIdx : calls[i].op = "mkdir"

\* the calls of one primitive
CallsOf(op) == {i \in CallIdx : calls[i].op = op}

\* C11: in coregister without a template directory the canonical template
\* is read and reoriented exactly once, before the first registration, and
\* every registration of the run has that same template as its fixed image.
C11_TemplateBuiltOnce ==
    (prog = "coregister" /\ args.template_dir = None) =>
        /\ Cardinality({i \in CallIdx : calls[i].path = MniPath /\ calls[i].op = "image_read"}) <= 1
        /\ Cardinality({i \in CallIdx : calls[i].path = MniPath
                                        /\ calls[i].op = "reorient_image2"}) <= 1
        /\ \A i \in CallsOf("registration") :
              /\ \E j, k \in 1..(i - 1) :
                    /\ j < k
                    /\ calls[j].op = "image_read" /\ calls[j].path = MniPath
                    /\ calls[k].op = "reorient_image2" /\ calls[k].path = MniPath
              /\ calls[i].via.fixed = Vol(MniPath, Unit, args.orientation)
              /\ \A j \in CallsOf("registration") : calls[j].via.fixed = calls[i].via.fixed

\* the second subject of a run without template directory is being registered
C11_Witness ==
    /\ prog = "coregister" /\ args.template_dir = None
    /\ \E i \in CallsOf("registration") : calls[i].item = 2 /\ calls[i].via.type # "Rigid"


\* C12: preprocess resamples an item only when its voxel spacing differs
\* from the target spacing in some component.
C12_NoResampleAtTarget ==
    prog = "preprocess" =>
        \A i \in CallsOf("resample_image") : env.spacing # args.resolution.v


WithTemplates == prog = "coregister" /\ args.template_dir # None

\* the moving image of registration call i was reoriented to the template's
\* orientation earlier in the same item
ReorientedBefore(i) ==
    \E j \in 1..(i - 1) : /\ calls[j].op = "reorient_image2"
                          /\ calls[j].item = calls[i].item
                          /\ calls[j].path = calls[i].path
                          /\ calls[j].via = env.torient

\* the fixed image of registration call i is the template at the subject's
\* position in the sorted template listing
AgainstOwnTemplate(i) ==
    /\ calls[i].path = img_fns[calls[i].item]
    /\ calls[i].via.fixed.src = glob_nii(args.template_dir[1])[calls[i].item]

\* C13 as stated: with a template directory every registration of subject i
\* is against template i, after the moving image was reoriented to that
\* template's orientation.
C13_OwnTemplateReoriented ==
    WithTemplates =>
        \A i \in CallsOf("registration") : AgainstOwnTemplate(i) /\ ReorientedBefore(i)

\* C13 amended: every registration of subject i is against template i; the
\* moving image was reoriented to the template's orientation before it
\* exactly when the template exposes an orientation.
C13_OwnTemplateReorientedIfKnown ==
    WithTemplates =>
        \A i \in CallsOf("registration") :
            /\ AgainstOwnTemplate(i)
            /\ ReorientedBefore(i) <=> env.orientation_attr
            /\ ~env.orientation_attr =>
                  \A j \in CallsOf("reorient_image2") : calls[j].item # calls[i].item

\* the second subject is registered against the second template after its reorientation
C13_Witness ==
    /\ WithTemplates /\ env.orientation_attr /\ env.torient # env.orient
    /\ \E i \in CallsOf("registration") :
          calls[i].item = 2 /\ calls[i].via.type # "Rigid" /\ ReorientedBefore(i)


\* the registrations of the requested kind
Requested == {i \in CallsOf("registration") : calls[i].via.type # "Rigid"}

\* call i is directly preceded by the rigid registration of the same subject
\* against the same fixed image
RigidJustBefore(i) ==
    /\ i > 1
    /\ calls[i - 1].op = "registration"
    /\ calls[i - 1].via.type = "Rigid"
    /\ calls[i - 1].via.initial = "None"
    /\ calls[i - 1].item = calls[i].item
    /\ calls[i - 1].via.fixed = calls[i].via.fixed
    /\ calls[i - 1].via.moving = calls[i].via.moving

\* C14: with rigid pre-alignment enabled every registration of the requested
\* kind directly follows the subject's rigid registration and is initialised
\* with its forward transform; with it disabled no rigid registration is
\* invoked and the registration has no initial transform.
C14_RigidPrealign ==
    prog = "coregister" =>
        /\ \A i \in Requested :
              IF args.no_rigid
              THEN calls[i].via.initial = "None"
              ELSE RigidJustBefore(i) /\ calls[i].via.initial = "Rigid.fwdtransforms[0]"
        /\ args.no_rigid => CallsOf("registration") = Requested

\* the second subject's registration is seeded by its rigid pre-alignment
C14_Witness ==
    /\ prog = "coregister" /\ ~args.no_rigid
    /\ \E i \in Requested : calls[i].item = 2 /\ RigidJustBefore(i)

\* without pre-alignment a registration of the requested kind was run
C14_WitnessDisabled ==
    /\ prog = "coregister" /\ args.no_rigid
    /\ \E i \in Requested : calls[i].via.initial = "None"


\* the bias-field corrections of item k, and the steps that follow them
N4Calls(k) == {i \in CallsOf("n4_bias_field_correction") : calls[i].item = k}
AfterN4Ops == {"resample_image", "reorient_image2", "reorient_image", "write_img", "write_mask"}
AfterN4(k) == {i \in CallIdx : calls[i].item = k /\ calls[i].op \in AfterN4Ops}
Passes == IF args.n4_once THEN 1 ELSE 2

\* C15: an item gets one bias-field correction in single-pass runs and two
\* otherwise, every pass after the first weighted by the smoothed copy of the
\* item's own mask, and all of them before the item is resampled or
\* reoriented.
C15_BiasPasses ==
    prog = "preprocess" =>
        \A k \in 1..Len(img_fns) :
            /\ Cardinality(N4Calls(k)) <= Passes
            /\ \A i \in N4Calls(k) :
                  \/ \A j \in N4Calls(k) : i <= j
                  \/ calls[i].via = [image_read(mask_fns[k]) EXCEPT !.smoothed = TRUE]
            /\ \A j \in AfterN4(k) :
                  /\ Cardinality(N4Calls(k)) = Passes
                  /\ \A i \in N4Calls(k) : i < j

\* the second item of a two-pass run was written after both of its passes
C15_Witness ==
    /\ prog = "preprocess" /\ ~args.n4_once
    /\ Cardinality(N4Calls(2)) = 2
    /\ \E j \in AfterN4(2) : calls[j].op = "write_mask"

\* the second item of a single-pass run was written after its one pass
C15_WitnessOnce ==
    /\ prog = "preprocess" /\ args.n4_once
    /\ Cardinality(N4Calls(2)) = 1
    /\ \E j \in AfterN4(2) : calls[j].op = "write_mask"


\* the calls of one primitive on item k's image and on item k's mask
OnImage(ops, k) ==
    {i \in CallIdx : calls[i].op \in ops /\ calls[i].item = k /\ calls[i].path = img_fns[k]}
OnMask(ops, k) ==
    {i \in CallIdx : calls[i].op \in ops /\ calls[i].item = k /\ calls[i].path = mask_fns[k]}
ReorientOps == {"reorient_image2", "reorient_image"}

\* C16: in preprocess the mask of an item is resampled exactly when its image
\* is, directly after it, the image with the B-spline interpolator and the
\* mask with the nearest-neighbour one, both to the target spacing; both are
\* reoriented by the same routine to the same axes; the written image and
\* mask have the same spacing and orientation and the written mask never
\* went through a smooth interpolator.
C16_ImageAndMaskTogether ==
    prog = "preprocess" =>
        \A k \in 1..Min(Len(img_fns), Len(mask_fns)) :
            /\ Cardinality(OnImage({"resample_image"}, k)) <= 1
            /\ \A i \in OnImage({"resample_image"}, k) :
                  calls[i].via = "bspline" /\ i + 1 \in OnMask({"resample_image"}, k)
            /\ \A j \in OnMask({"resample_image"}, k) :
                  calls[j].via = "nearest" /\ j - 1 \in OnImage({"resample_image"}, k)
            /\ \A i \in OnImage(ReorientOps, k) :
                  /\ i + 1 \in OnMask(ReorientOps, k)
                  /\ calls[i + 1].op = calls[i].op /\ calls[i + 1].via = calls[i].via
            /\ \A j \in OnMask(ReorientOps, k) : j - 1 \in OnImage(ReorientOps, k)
            /\ \A j \in OnMask({"write_mask"}, k) :
                  /\ calls[j].via.interp \in {"none", "nearest"}
                  /\ (calls[j].via.interp = "nearest") = (OnImage({"resample_image"}, k) # {})
                  /\ calls[j].via.interp = "nearest" => calls[j].via.spacing = args.resolution.v
                  /\ \A i \in CallsOf("write_img") :
                        calls[i].item = k =>
                            /\ calls[i].via.spacing = calls[j].via.spacing
                            /\ calls[i].via.orient = calls[j].via.orient
                            /\ (calls[i].via.interp = "bspline") = (calls[j].via.interp = "nearest")

\* the second item was resampled to a coarser grid and its mask written
C16_Witness ==
    /\ prog = "preprocess" /\ env.spacing # args.resolution.v
    /\ \E j \in CallsOf("write_mask") :
          /\ calls[j].item = 2 /\ calls[j].via.interp = "nearest"
          /\ calls[j].via.spacing = args.resolution.v


DeriveOps == {"find_wm_mask", "save_wmmask"}
Supplied == prog = "fcm" /\ args.wm_mask # None

\* C17: in a run of fcm_normalize that is given a WM mask (file or
\* directory) no step of the WM-mask derivation is ever taken: Phase A is
\* not entered, find_wm_mask is not invoked and no _wmmask file is written.
C17_NoDerivationWhenSupplied ==
    Supplied =>
        /\ pc # "phaseA" /\ pc # "single1"
        /\ ppc \notin {"mask", "find", "savewm"}
        /\ \A i \in CallIdx : calls[i].op \notin DeriveOps

\* directory mode with supplied WM masks and a T1 label: the second image
\* was normalized
C17_Witness ==
    /\ Supplied /\ ~args.single_img /\ lower(args.contrast) = "t1"
    /\ \E i \in CallsOf("save_fcm") : calls[i].item = 2

\* single-image mode with a supplied WM mask: the image was normalized
C17_WitnessSingle ==
    /\ Supplied /\ args.single_img /\ lower(args.contrast) = "t1"
    /\ CallsOf("save_fcm") # {}

\* a supplied WM mask with another contrast label: an image was normalized
C17_WitnessOtherContrast ==
    /\ Supplied /\ lower(args.contrast) # "t1"
    /\ CallsOf("save_fcm") # {}


\* the derivation steps of one kind taken for the image s
DerivationsOf(op, s) == {i \in CallsOf(op) : calls[i].src = s}

\* C18: in one run of fcm_normalize no image has its WM mask derived twice:
\* find_wm_mask is invoked at most once for it and its _wmmask file is
\* written at most once.
C18_DerivedAtMostOnce ==
    prog = "fcm" =>
        \A k \in 1..Len(img_fns) :
            /\ Cardinality(DerivationsOf("find_wm_mask", img_fns[k])) <= 1
            /\ Cardinality(DerivationsOf("save_wmmask", img_fns[k])) <= 1

\* the same, for directory mode only
C18_DerivedAtMostOnceDirMode == DirMode => C18_DerivedAtMostOnce


\* both masks are given, or neither is
BadMaskOptions == prog = "fcm" /\ (args.brain_mask = None) = (args.wm_mask = None)

\* C19: an invocation of fcm_normalize with both a brain mask and a WM mask,
\* or with neither, never gets past the check of its options: it ends there
\* with the error raised, no primitive was called, nothing was logged and no
\* file or directory was touched. Every run past the check has exactly one
\* of the two.
C19_RejectedBeforeProcessing ==
    BadMaskOptions =>
        /\ pc \in {"args", "done"} /\ ppc = "idle"
        /\ pc = "done" => status = "escaped"
        /\ calls = <<>> /\ log = <<>>
        /\ files = snap.fs /\ img_fns = <<>> /\ mask_fns = <<>>

\* both masks given, both present on disk: the run was rejected
C19_Witness ==
    /\ prog = "fcm" /\ args.brain_mask # None /\ args.wm_mask # None
    /\ exists(args.wm_mask) /\ isdir(args.image) = ~args.single_img
    /\ status = "escaped" /\ pc = "done"

\* neither mask given: the run was rejected
C19_WitnessNeither ==
    /\ prog = "fcm" /\ args.brain_mask = None /\ args.wm_mask = None
    /\ status = "escaped" /\ pc = "done"


\* single-image mode deriving the WM mask from a brain mask
SingleDerived ==
    /\ prog = "fcm" /\ args.single_img /\ args.brain_mask # None /\ args.wm_mask = None
    /\ lower(args.contrast) = "t1"

\* C20: in single-image mode with a brain mask and a T1 label, once process
\* is about to read the WM mask for normalization, the path it reads is a
\* path the derivation wrote in this run, and the file there is the WM mask
\* derived from this image and this brain mask, whether the output directory
\* is given or defaults to the image's directory.
C20_ReadsWhatWasDerived ==
    (SingleDerived /\ ppc \in {"openwm", "norm", "savefcm"}) =>
        /\ \E j \in CallsOf("save_wmmask") :
              /\ calls[j].path = call.wm_mask_fn
              /\ calls[j].src = args.image
        /\ isfile(call.wm_mask_fn)
        /\ files[call.wm_mask_fn] = find_wm_mask(files[args.image], files[args.brain_mask])
        /\ ppc # "openwm" => loc.wm_mask = files[call.wm_mask_fn]

\* with an output directory given, the image was normalized by the derived mask
C20_Witness ==
    /\ SingleDerived /\ args.output_dir # None
    /\ \E i \in CallsOf("fcm_normalize") :
          calls[i].path = WmMaskFile(args.output_dir[1], split_filename(args.image)[2])

\* with no output directory, the image was normalized by the derived mask
C20_WitnessDefaultDir ==
    /\ SingleDerived /\ args.output_dir = None
    /\ \E i \in CallsOf("fcm_normalize") :
          calls[i].path = WmMaskFile(args.image[1], split_filename(args.image)[2])

====
